---- MODULE Spec2Model ----
(***************************************************************************)
(* Model of src/app.py: the session store (sessions/<token>/ with its      *)
(* meta.json, inventory.ini, vars.yml, two logs and report.json) and the   *)
(* four request handlers create_session, share, accept and status.         *)
(*                                                                         *)
(* Handlers run on the threads of the development server started by        *)
(* app.run (src/app.py:217), so the steps of two requests interleave.  A   *)
(* handler is cut into steps at its accesses to shared files.              *)
(* Path.write_text opens the file for writing, which empties it, and then  *)
(* writes the text: every write of meta.json and report.json is two steps, *)
(* and a reader in between finds an empty file.                            *)
(*                                                                         *)
(* Texts typed into forms are sequences of one-character strings, so that  *)
(* strip and split are computed as Python computes them.  time.time() is   *)
(* the constant Now: no property here compares two timestamps.  A request  *)
(* that is answered on arrival (an unknown token, an invalid form, a page  *)
(* that is only read) changes no file; its answer is an operator of the    *)
(* store and the form, ShareOutcome, AcceptPostOutcome and so on.          *)
(***************************************************************************)
EXTENDS Integers, Sequences, FiniteSets, TLC

\* ------------------------------------------------------------------ bounds
\* longest source-path text typed into the create form
MaxLen == 1
\* requests that get past validation and begin work: creates and accepts
MaxRequests == 3
\* lines a playbook run prints before it exits
MaxLogLines == 1

\* ------------------------------------------------------------ value spaces
\* secrets.token_urlsafe(12) draws from a finite space; two draws may collide
Tokens == {"tokA", "tokB"}
\* worker threads of the server; a request goes to the first idle one
Threads == 1 .. 2
\* exit statuses of ansible-playbook (negative: killed by a signal)
ExitCodes == {0, 2}

SrcAlphabet == {",", " ", "a"}
RECURSIVE TextsUpTo(_, _)
TextsUpTo(alphabet, n) ==
    IF n = 0 THEN {<<>>}
    ELSE LET shorter == TextsUpTo(alphabet, n - 1)
         IN  shorter \cup {Append(s, c) : s \in shorter, c \in alphabet}
SrcTexts == TextsUpTo(SrcAlphabet, MaxLen)
DestTexts == {<<>>, <<" ">>}
HostTexts == {<<" ">>, <<"h">>}
UserTexts == {<<>>, <<"u">>}
OverrideTexts == {<<>>, <<"e">>}

\* the default of request.form.get("dest_path", ...) in create_session
DefaultDest == <<"/home/ubuntu/received_files">>
\* the public key ssh-keygen leaves in id_ed25519.pub
PubKey == <<"ssh-ed25519 AAAA">>
Now == "t"

\* ---------------------------------------------------------- file contents
NoFile == [exists |-> FALSE]
\* a file opened for writing and not yet written: zero bytes
Truncated == [truncated |-> TRUE]
NoMeta == [nometa |-> TRUE]
NoEnd == [kind |-> "none"]

IsRecord(f) == f # NoFile /\ f # Truncated

VARIABLES
    dir,          \* dir[t]: sessions/<t>/ exists
    metaFile,     \* contents of sessions/<t>/meta.json
    invFile,      \* contents of sessions/<t>/inventory.ini
    varsFile,     \* contents of sessions/<t>/vars.yml
    transferLog,  \* contents of sessions/<t>/ansible_transfer.log
    cleanupLog,   \* contents of sessions/<t>/ansible_cleanup.log
    reportFile,   \* contents of sessions/<t>/report.json
    pc,           \* pc[w]: where thread w stands in its handler
    tok,          \* tok[w]: the handler's local  token
    meta,         \* meta[w]: the handler's local  meta  dict
    out,          \* out[w]: lines the handler's playbook run has logged
    ended,        \* how a handler that had begun its work ended in the step
                  \* just taken, if one did
    lastStatus,   \* history: status of the last record written to meta.json
    keygenRuns,   \* history: ssh-keygen invocations per token
    transferRuns, \* history: transfer playbook launches per token
    cleanupRuns,  \* history: cleanup playbook launches per token
    requests,     \* history: requests that began work (see MaxRequests)
    keygenFailed  \* history: create_session died in generate_ephemeral_keypair

disk == <<dir, metaFile, invFile, varsFile, transferLog, cleanupLog, reportFile>>
hist == <<lastStatus, keygenRuns, transferRuns, cleanupRuns, requests, keygenFailed>>
vars == <<dir, metaFile, invFile, varsFile, transferLog, cleanupLog, reportFile,
          pc, tok, meta, out, ended,
          lastStatus, keygenRuns, transferRuns, cleanupRuns, requests, keygenFailed>>

\* ------------------------------------------------------------ pure helpers
\* str.strip(): drop leading and trailing whitespace
RECURSIVE LStrip(_)
LStrip(s) == IF s # <<>> /\ Head(s) = " " THEN LStrip(Tail(s)) ELSE s
RECURSIVE RStrip(_)
RStrip(s) ==
    IF s # <<>> /\ s[Len(s)] = " " THEN RStrip(SubSeq(s, 1, Len(s) - 1)) ELSE s
Strip(s) == RStrip(LStrip(s))

\* str.split(","): the pieces between commas, empty pieces included
RECURSIVE SplitFrom(_, _)
SplitFrom(s, piece) ==
    IF s = <<>> THEN <<piece>>
    ELSE IF Head(s) = "," THEN <<piece>> \o SplitFrom(Tail(s), <<>>)
    ELSE SplitFrom(Tail(s), Append(piece, Head(s)))
Split(s) == SplitFrom(s, <<>>)

\* [s.strip() for s in pieces if s.strip()]
RECURSIVE StripNonEmpty(_)
StripNonEmpty(pieces) ==
    IF pieces = <<>> THEN <<>>
    ELSE LET p == Strip(Head(pieces))
         IN  (IF p # <<>> THEN <<p>> ELSE <<>>) \o StripNonEmpty(Tail(pieces))

\* dict[key] = value
Put(m, k, v) == [x \in DOMAIN m \cup {k} |-> IF x = k THEN v ELSE m[x]]
\* dict.get(key): None for a key that is not there
None == [none |-> TRUE]
DictGet(m, k) == IF k \in DOMAIN m THEN m[k] ELSE None
\* request.form.get(key, default)
FormGet(form, k, default) == IF k \in DOMAIN form THEN form[k] ELSE default

\* the files under the source paths of this model's file system
FsSize(p) == IF p = <<"a">> THEN 100 ELSE 0
RECURSIVE compute_total_size(_)
compute_total_size(paths) ==
    IF paths = <<>> THEN 0
    ELSE FsSize(Head(paths)) + compute_total_size(Tail(paths))

\* ------------------------------------------------------------------- init
Init ==
    /\ dir = [t \in Tokens |-> FALSE]
    /\ metaFile = [t \in Tokens |-> NoFile]
    /\ invFile = [t \in Tokens |-> NoFile]
    /\ varsFile = [t \in Tokens |-> NoFile]
    /\ transferLog = [t \in Tokens |-> NoFile]
    /\ cleanupLog = [t \in Tokens |-> NoFile]
    /\ reportFile = [t \in Tokens |-> NoFile]
    /\ pc = [w \in Threads |-> "idle"]
    /\ tok = [w \in Threads |-> "none"]
    /\ meta = [w \in Threads |-> NoMeta]
    /\ out = [w \in Threads |-> 0]
    /\ ended = NoEnd
    /\ lastStatus = [t \in Tokens |-> "none"]
    /\ keygenRuns = [t \in Tokens |-> 0]
    /\ transferRuns = [t \in Tokens |-> 0]
    /\ cleanupRuns = [t \in Tokens |-> 0]
    /\ requests = 0
    /\ keygenFailed = [t \in Tokens |-> FALSE]

\* a new request is served by the first idle thread
FirstFree(w) == pc[w] = "idle" /\ \A v \in Threads : v < w => pc[v] # "idle"

\* the answer sent from source line  at ; an unhandled exception  err  is
\* answered by Flask with a 500.  code 0: no answer yet, the handler goes on.
Response(kind, t, at, code, err) ==
    [kind |-> kind, token |-> t, at |-> at, code |-> code, err |-> err]
Proceeds(r) == r.code = 0

\* the handler of thread w is over
End(w, r) ==
    /\ pc' = [pc EXCEPT ![w] = "idle"]
    /\ tok' = [tok EXCEPT ![w] = "none"]
    /\ meta' = [meta EXCEPT ![w] = NoMeta]
    /\ out' = [out EXCEPT ![w] = 0]
    /\ ended' = r

Goto(w, label) ==
    /\ pc' = [pc EXCEPT ![w] = label]
    /\ ended' = NoEnd
    /\ UNCHANGED out

\* Path.write_text on meta.json, first half: the file is opened for writing
OpenMeta(w) ==
    /\ metaFile' = [metaFile EXCEPT ![tok[w]] = Truncated]
    /\ UNCHANGED lastStatus

\* Path.write_text on meta.json, second half: json.dumps(meta) is written
WriteMeta(w) ==
    /\ metaFile' = [metaFile EXCEPT ![tok[w]] = meta[w]]
    /\ lastStatus' = [lastStatus EXCEPT ![tok[w]] = meta[w]["status"]]

\* json.loads((session_path / "meta.json").read_text())
LoadMeta(t) ==
    IF metaFile[t] = NoFile THEN "FileNotFoundError"
    ELSE IF metaFile[t] = Truncated THEN "JSONDecodeError"
    ELSE "ok"

\* create_session hands its token out when it returns (the redirect to the
\* share page); until the handler is over no other request can name it
CreatePcs == {"create_open_meta", "create_write_meta", "create_keygen",
              "create_save_key"}
Known(t) == \A w \in Threads : ~(pc[w] \in CreatePcs /\ tok[w] = t)

\* a request answered on arrival leaves every file as it is
Answered ==
    /\ ended' = NoEnd
    /\ UNCHANGED <<disk, pc, tok, meta, out, hist>>

\* ---------------------------------------------------------- create_session
CreateForms ==
    { [k \in {} |-> <<>>] }
    \cup { [src_paths |-> s] : s \in SrcTexts }
    \cup { [dest_path |-> d] : d \in DestTexts }
    \cup { [src_paths |-> s, dest_path |-> d] : s \in SrcTexts, d \in DestTexts }

\* a mkdir that accepts a directory that is already there (exist_ok=True)
Mkdir_ExistOk(t) == "ok"
\* session_path.mkdir(parents=True, exist_ok=False)
Mkdir(t) == IF dir[t] THEN "FileExistsError" ELSE "ok"

\* lines 92-96
SrcText(form) == Strip(FormGet(form, "src_paths", <<>>))
SrcPaths(form) == StripNonEmpty(Split(SrcText(form)))
CreateDest(form) == Strip(FormGet(form, "dest_path", DefaultDest))

\* lines 92-99: how create_session answers a form when it draws token t
CreateOutcome(form, t) ==
    IF SrcText(form) = <<>> THEN Response("create", "none", 95, 400, "none")
    ELSE IF Mkdir(t) # "ok" THEN Response("create", t, 99, 500, Mkdir(t))
    ELSE Response("create", t, 99, 0, "none")

\* lines 101-107
NewMeta(form, t) ==
    [token |-> t, created_at |-> Now, src_paths |-> SrcPaths(form),
     dest_path |-> CreateDest(form), status |-> "waiting_for_client"]

\* lines 92-107: parse the form, draw a token, make the session directory
CreateBegin(w) ==
    /\ FirstFree(w)
    /\ requests < MaxRequests
    /\ \E form \in CreateForms, t \in Tokens :
        /\ Proceeds(CreateOutcome(form, t))
        /\ dir' = [dir EXCEPT ![t] = TRUE]
        /\ tok' = [tok EXCEPT ![w] = t]
        /\ meta' = [meta EXCEPT ![w] = NewMeta(form, t)]
    /\ requests' = requests + 1
    /\ Goto(w, "create_open_meta")
    /\ UNCHANGED <<metaFile, invFile, varsFile, transferLog, cleanupLog,
                   reportFile, lastStatus, keygenRuns, transferRuns, cleanupRuns,
                   keygenFailed>>

\* lines 92-99: the form is refused (400) or the token's directory exists
CreateRefused(w) ==
    /\ FirstFree(w)
    /\ \E form \in CreateForms, t \in Tokens : ~Proceeds(CreateOutcome(form, t))
    /\ Answered

\* line 108, first half: meta.json is created empty
CreateOpenMeta(w) ==
    /\ pc[w] = "create_open_meta"
    /\ OpenMeta(w)
    /\ Goto(w, "create_write_meta")
    /\ UNCHANGED <<dir, invFile, varsFile, transferLog, cleanupLog, reportFile,
                   tok, meta, keygenRuns, transferRuns, cleanupRuns, requests,
                   keygenFailed>>

\* line 108, second half: the record is written
CreateWriteMeta(w) ==
    /\ pc[w] = "create_write_meta"
    /\ WriteMeta(w)
    /\ Goto(w, "create_keygen")
    /\ UNCHANGED <<dir, invFile, varsFile, transferLog, cleanupLog, reportFile,
                   tok, meta, keygenRuns, transferRuns, cleanupRuns, requests,
                   keygenFailed>>

\* what generate_ephemeral_keypair ends in: the key pair written, ssh-keygen
\* exiting non-zero (check=True raises), or no id_ed25519.pub to read
KeygenOutcomes == {"ok", "CalledProcessError", "FileNotFoundError"}

\* line 112
KeyedMeta(m, pubkey) == Put(m, "public_key", pubkey)

\* lines 110-113 (first half of the write): ssh-keygen runs; on success the
\* public key goes into meta and meta.json is opened for writing
CreateKeygen(w) ==
    /\ pc[w] = "create_keygen"
    /\ keygenRuns' = [keygenRuns EXCEPT ![tok[w]] = @ + 1]
    /\ \E outcome \in KeygenOutcomes :
        IF outcome = "ok"
        THEN /\ meta' = [meta EXCEPT ![w] = KeyedMeta(@, PubKey)]
             /\ OpenMeta(w)
             /\ Goto(w, "create_save_key")
             /\ UNCHANGED <<tok, keygenFailed>>
        ELSE /\ End(w, Response("create", tok[w], 110, 500, outcome))
             /\ keygenFailed' = [keygenFailed EXCEPT ![tok[w]] = TRUE]
             /\ UNCHANGED <<metaFile, lastStatus>>
    /\ UNCHANGED <<dir, invFile, varsFile, transferLog, cleanupLog, reportFile,
                   transferRuns, cleanupRuns, requests>>

\* lines 113-115: the record with the public key is written, redirect to share
CreateSaveKey(w) ==
    /\ pc[w] = "create_save_key"
    /\ WriteMeta(w)
    /\ End(w, Response("create", tok[w], 115, 302, "none"))
    /\ UNCHANGED <<dir, invFile, varsFile, transferLog, cleanupLog, reportFile,
                   keygenRuns, transferRuns, cleanupRuns, requests, keygenFailed>>

\* ----------------------------------------------------- share, status, GET
\* lines 119-126
ShareOutcome(t) ==
    IF ~dir[t] THEN Response("share", t, 121, 404, "none")
    ELSE IF LoadMeta(t) # "ok" THEN Response("share", t, 122, 500, LoadMeta(t))
    ELSE Response("share", t, 126, 200, "none")

Share(w) ==
    /\ FirstFree(w)
    /\ \E t \in Tokens : Known(t) /\ ~Proceeds(ShareOutcome(t))
    /\ Answered

\* lines 200-214
StatusOutcome(t) ==
    IF ~dir[t] THEN Response("status", t, 202, 404, "none")
    ELSE IF LoadMeta(t) # "ok" THEN Response("status", t, 203, 500, LoadMeta(t))
    ELSE Response("status", t, 214, 200, "none")

\* lines 205-210: tail(filename, n=200) on a log that exists, the last n of
\* its lines
TailN == 200
LastLines(data, n) ==
    IF Len(data) <= n THEN data ELSE SubSeq(data, Len(data) - n + 1, Len(data))
tail(data, n) == LastLines(data, n)
\* line 210: the transfer log the status page of token t shows, once a
\* transfer run has opened the log (line 76)
StatusTransferLog(t) == tail(transferLog[t], TailN)

Status(w) ==
    /\ FirstFree(w)
    /\ \E t \in Tokens : Known(t) /\ ~Proceeds(StatusOutcome(t))
    /\ Answered

\* lines 130-136
AcceptGetOutcome(t) ==
    IF ~dir[t] THEN Response("accept_get", t, 132, 404, "none")
    ELSE IF LoadMeta(t) # "ok"
    THEN Response("accept_get", t, 133, 500, LoadMeta(t))
    ELSE Response("accept_get", t, 136, 200, "none")

AcceptGet(w) ==
    /\ FirstFree(w)
    /\ \E t \in Tokens : Known(t) /\ ~Proceeds(AcceptGetOutcome(t))
    /\ Answered

\* ------------------------------------------------------------ accept, POST
AcceptKeys == {"client_host", "client_user", "dest_path"}
FieldTexts(k) ==
    IF k = "client_host" THEN HostTexts
    ELSE IF k = "client_user" THEN UserTexts
    ELSE OverrideTexts
AcceptForms ==
    UNION { { f \in [K -> HostTexts \cup UserTexts \cup OverrideTexts] :
                \A k \in K : f[k] \in FieldTexts(k) } : K \in SUBSET AcceptKeys }

\* lines 138-140: request.form.get(k) is None for a field that was not sent,
\* and None.strip() raises AttributeError; the line that raises, or 0
ParseError(form) ==
    IF "client_host" \notin DOMAIN form THEN 138
    ELSE IF "client_user" \notin DOMAIN form THEN 139
    ELSE IF "dest_path" \notin DOMAIN form THEN 140
    ELSE 0

\* line 141
Invalid(client_host, client_user) == client_host = <<>> \/ client_user = <<>>

\* a destination that a submitted value never replaces
DestOr_KeepsStored(submitted, kept) == kept
\* line 140:  submitted.strip() or meta.get("dest_path")
DestOr(submitted, kept) == IF submitted # <<>> THEN submitted ELSE kept

\* lines 130-142: how accept answers a submitted form
AcceptPostOutcome(t, form) ==
    IF ~dir[t] THEN Response("accept_post", t, 132, 404, "none")
    ELSE IF LoadMeta(t) # "ok"
    THEN Response("accept_post", t, 133, 500, LoadMeta(t))
    ELSE IF ParseError(form) # 0
    THEN Response("accept_post", t, ParseError(form), 500, "AttributeError")
    ELSE IF Invalid(Strip(form["client_host"]), Strip(form["client_user"]))
    THEN Response("accept_post", t, 142, 400, "none")
    ELSE Response("accept_post", t, 142, 0, "none")

\* an update that also clears the source list
AcceptedMeta_ClearsSources(m, form) ==
    Put(Put(Put(Put(Put(m, "client_host", Strip(form["client_host"])),
                    "client_user", Strip(form["client_user"])),
                "dest_path", DestOr(Strip(form["dest_path"]), m["dest_path"])),
            "status", "starting_transfer"),
        "src_paths", <<>>)
\* lines 144-147
AcceptedMeta(m, form) ==
    Put(Put(Put(Put(m, "client_host", Strip(form["client_host"])),
                "client_user", Strip(form["client_user"])),
            "dest_path", DestOr(Strip(form["dest_path"]), m["dest_path"])),
        "status", "starting_transfer")

\* lines 130-147: load meta.json, read the form, validate, update meta
AcceptBegin(w) ==
    /\ FirstFree(w)
    /\ requests < MaxRequests
    /\ \E t \in Tokens, form \in AcceptForms :
        /\ Known(t)
        /\ Proceeds(AcceptPostOutcome(t, form))
        /\ tok' = [tok EXCEPT ![w] = t]
        /\ meta' = [meta EXCEPT ![w] = AcceptedMeta(metaFile[t], form)]
    /\ requests' = requests + 1
    /\ Goto(w, "accept_open_meta")
    /\ UNCHANGED <<disk, lastStatus, keygenRuns, transferRuns, cleanupRuns,
                   keygenFailed>>

\* lines 130-142: unknown token, unreadable record, missing or blank field
AcceptRefused(w) ==
    /\ FirstFree(w)
    /\ \E t \in Tokens, form \in AcceptForms :
        Known(t) /\ ~Proceeds(AcceptPostOutcome(t, form))
    /\ Answered

\* line 148, first half
AcceptOpenMeta(w) ==
    /\ pc[w] = "accept_open_meta"
    /\ OpenMeta(w)
    /\ Goto(w, "accept_write_meta")
    /\ UNCHANGED <<dir, invFile, varsFile, transferLog, cleanupLog, reportFile,
                   tok, meta, keygenRuns, transferRuns, cleanupRuns, requests,
                   keygenFailed>>

\* line 148, second half
AcceptWriteMeta(w) ==
    /\ pc[w] = "accept_write_meta"
    /\ WriteMeta(w)
    /\ Goto(w, "accept_descriptors")
    /\ UNCHANGED <<dir, invFile, varsFile, transferLog, cleanupLog, reportFile,
                   tok, meta, keygenRuns, transferRuns, cleanupRuns, requests,
                   keygenFailed>>

\* write_inventory, lines 34-40
Inventory(t, host, user) ==
    [ansible_host |-> host, ansible_user |-> user,
     ansible_ssh_private_key_file |-> <<t, "id_ed25519">>]

\* write_vars_file, lines 42-51
VarsData(src_paths, dest_path, client_user, public_key) ==
    [src_paths |-> src_paths, dest_path |-> dest_path,
     client_user |-> client_user, public_key |-> public_key]

\* lines 154-156
SizedMeta(m) ==
    Put(Put(m, "expected_size_bytes", compute_total_size(m["src_paths"])),
        "started_at", Now)

\* lines 150-157 (first half of the write): inventory.ini and vars.yml are
\* written, the size is computed, meta.json is opened for writing.
\* meta['public_key'] raises KeyError when create_session never stored one.
AcceptDescriptors(w) ==
    /\ pc[w] = "accept_descriptors"
    /\ invFile' = [invFile EXCEPT ![tok[w]] =
           Inventory(tok[w], meta[w]["client_host"], meta[w]["client_user"])]
    /\ IF "public_key" \notin DOMAIN meta[w]
       THEN /\ End(w, Response("accept_post", tok[w], 152, 500, "KeyError"))
            /\ UNCHANGED <<metaFile, lastStatus, varsFile>>
       ELSE /\ varsFile' = [varsFile EXCEPT ![tok[w]] =
                  VarsData(meta[w]["src_paths"], meta[w]["dest_path"],
                           meta[w]["client_user"], meta[w]["public_key"])]
            /\ meta' = [meta EXCEPT ![w] = SizedMeta(@)]
            /\ OpenMeta(w)
            /\ Goto(w, "accept_save_start")
            /\ UNCHANGED tok
    /\ UNCHANGED <<dir, transferLog, cleanupLog, reportFile, keygenRuns,
                   transferRuns, cleanupRuns, requests, keygenFailed>>

\* line 157, second half
AcceptSaveStart(w) ==
    /\ pc[w] = "accept_save_start"
    /\ WriteMeta(w)
    /\ Goto(w, "transfer_launch")
    /\ UNCHANGED <<dir, invFile, varsFile, transferLog, cleanupLog, reportFile,
                   tok, meta, keygenRuns, transferRuns, cleanupRuns, requests,
                   keygenFailed>>

\* ---------------------------------------------------- run_ansible_playbook
\* subprocess.Popen either starts ansible-playbook or raises
LaunchOutcomes == {"ok", "FileNotFoundError"}

\* the n-th line a playbook run prints, and the gap left in a file that is
\* written beyond its end
Line(n) == [line |-> n]
Hole == [hole |-> TRUE]

Max(a, b) == IF a > b THEN a ELSE b

\* logf.write(line) on a handle opened "wb" that has written  pos  lines
WriteAt(file, pos, line) ==
    [i \in 1 .. Max(Len(file), pos + 1) |->
        IF i = pos + 1 THEN line
        ELSE IF i <= Len(file) THEN file[i]
        ELSE Hole]

\* lines 160-162 and 76-77: the transfer log is opened "wb" (emptied), the
\* transfer playbook is started
TransferLaunch(w) ==
    /\ pc[w] = "transfer_launch"
    /\ transferLog' = [transferLog EXCEPT ![tok[w]] = <<>>]
    /\ \E outcome \in LaunchOutcomes :
        IF outcome = "ok"
        THEN /\ transferRuns' = [transferRuns EXCEPT ![tok[w]] = @ + 1]
             /\ Goto(w, "transfer_run")
             /\ UNCHANGED <<tok, meta>>
        ELSE /\ End(w, Response("accept_post", tok[w], 162, 500, outcome))
             /\ UNCHANGED transferRuns
    /\ UNCHANGED <<dir, metaFile, invFile, varsFile, cleanupLog, reportFile,
                   lastStatus, keygenRuns, cleanupRuns, requests, keygenFailed>>

\* lines 78-80: one more line of the playbook's output goes to the log
TransferOutput(w) ==
    /\ pc[w] = "transfer_run"
    /\ out[w] < MaxLogLines
    /\ transferLog' = [transferLog EXCEPT ![tok[w]] =
           WriteAt(@, out[w], Line(out[w] + 1))]
    /\ out' = [out EXCEPT ![w] = @ + 1]
    /\ ended' = NoEnd
    /\ UNCHANGED <<dir, metaFile, invFile, varsFile, cleanupLog, reportFile,
                   pc, tok, meta, hist>>

\* lines 166-169
StatusOf(rc) == IF rc = 0 THEN "transfer_success" ELSE "transfer_failed"

\* lines 163-169
TransferredMeta(m, t, rc) ==
    Put(Put(Put(Put(m, "transfer_rc", rc),
                "transfer_logfile", <<t, "ansible_transfer.log">>),
            "finished_at", Now),
        "status", StatusOf(rc))

\* lines 81-82 and 163-170 (first half of the write): the playbook exits, the
\* outcome goes into meta, meta.json is opened for writing
TransferExit(w) ==
    /\ pc[w] = "transfer_run"
    /\ out[w] = MaxLogLines
    /\ \E rc \in ExitCodes :
        meta' = [meta EXCEPT ![w] = TransferredMeta(@, tok[w], rc)]
    /\ out' = [out EXCEPT ![w] = 0]
    /\ OpenMeta(w)
    /\ pc' = [pc EXCEPT ![w] = "accept_save_transfer"]
    /\ ended' = NoEnd
    /\ UNCHANGED <<dir, invFile, varsFile, transferLog, cleanupLog, reportFile,
                   tok, keygenRuns, transferRuns, cleanupRuns, requests,
                   keygenFailed>>

\* line 170, second half
AcceptSaveTransfer(w) ==
    /\ pc[w] = "accept_save_transfer"
    /\ WriteMeta(w)
    /\ Goto(w, "cleanup_launch")
    /\ UNCHANGED <<dir, invFile, varsFile, transferLog, cleanupLog, reportFile,
                   tok, meta, keygenRuns, transferRuns, cleanupRuns, requests,
                   keygenFailed>>

\* lines 173-175 and 76-77: the cleanup log is opened "wb", the cleanup
\* playbook is started
CleanupLaunch(w) ==
    /\ pc[w] = "cleanup_launch"
    /\ cleanupLog' = [cleanupLog EXCEPT ![tok[w]] = <<>>]
    /\ \E outcome \in LaunchOutcomes :
        IF outcome = "ok"
        THEN /\ cleanupRuns' = [cleanupRuns EXCEPT ![tok[w]] = @ + 1]
             /\ Goto(w, "cleanup_run")
             /\ UNCHANGED <<tok, meta>>
        ELSE /\ End(w, Response("accept_post", tok[w], 175, 500, outcome))
             /\ UNCHANGED cleanupRuns
    /\ UNCHANGED <<dir, metaFile, invFile, varsFile, transferLog, reportFile,
                   lastStatus, keygenRuns, transferRuns, requests, keygenFailed>>

\* lines 78-80, cleanup run
CleanupOutput(w) ==
    /\ pc[w] = "cleanup_run"
    /\ out[w] < MaxLogLines
    /\ cleanupLog' = [cleanupLog EXCEPT ![tok[w]] =
           WriteAt(@, out[w], Line(out[w] + 1))]
    /\ out' = [out EXCEPT ![w] = @ + 1]
    /\ ended' = NoEnd
    /\ UNCHANGED <<dir, metaFile, invFile, varsFile, transferLog, reportFile,
                   pc, tok, meta, hist>>

\* a cleanup result that also decides the status
CleanedMeta_StatusFromCleanup(m, t, rc2) ==
    Put(Put(Put(m, "cleanup_rc", rc2),
            "cleanup_logfile", <<t, "ansible_cleanup.log">>),
        "status", IF rc2 = 0 THEN m["status"] ELSE "transfer_failed")
\* a cleanup result stored under the transfer's key
CleanedMeta_WrongKey(m, t, rc2) ==
    Put(Put(m, "transfer_rc", rc2), "cleanup_logfile", <<t, "ansible_cleanup.log">>)
\* lines 176-177
CleanedMeta(m, t, rc2) ==
    Put(Put(m, "cleanup_rc", rc2), "cleanup_logfile", <<t, "ansible_cleanup.log">>)

\* lines 81-82 and 176-178 (first half of the write)
CleanupExit(w) ==
    /\ pc[w] = "cleanup_run"
    /\ out[w] = MaxLogLines
    /\ \E rc2 \in ExitCodes :
        meta' = [meta EXCEPT ![w] = CleanedMeta(@, tok[w], rc2)]
    /\ out' = [out EXCEPT ![w] = 0]
    /\ OpenMeta(w)
    /\ pc' = [pc EXCEPT ![w] = "accept_save_cleanup"]
    /\ ended' = NoEnd
    /\ UNCHANGED <<dir, invFile, varsFile, transferLog, cleanupLog, reportFile,
                   tok, keygenRuns, transferRuns, cleanupRuns, requests,
                   keygenFailed>>

\* line 178, second half
AcceptSaveCleanup(w) ==
    /\ pc[w] = "accept_save_cleanup"
    /\ WriteMeta(w)
    /\ Goto(w, "report_open")
    /\ UNCHANGED <<dir, invFile, varsFile, transferLog, cleanupLog, reportFile,
                   tok, meta, keygenRuns, transferRuns, cleanupRuns, requests,
                   keygenFailed>>

\* lines 181-193.  The locals dest_path, client_host, client_user and
\* total_bytes hold what lines 144-146 and 155 stored in the local meta.
Report(m) ==
    [token |-> m["token"], status |-> m["status"], src_paths |-> m["src_paths"],
     dest_path |-> m["dest_path"], client_host |-> m["client_host"],
     client_user |-> m["client_user"],
     expected_size_bytes |-> m["expected_size_bytes"],
     started_at |-> m["started_at"], finished_at |-> m["finished_at"],
     transfer_rc |-> DictGet(m, "transfer_rc"),
     cleanup_rc |-> DictGet(m, "cleanup_rc")]

\* line 194, first half: report.json is opened for writing
ReportOpen(w) ==
    /\ pc[w] = "report_open"
    /\ reportFile' = [reportFile EXCEPT ![tok[w]] = Truncated]
    /\ Goto(w, "report_write")
    /\ UNCHANGED <<dir, metaFile, invFile, varsFile, transferLog, cleanupLog,
                   tok, meta, hist>>

\* lines 194-196: the report is written, redirect to status
ReportWrite(w) ==
    /\ pc[w] = "report_write"
    /\ reportFile' = [reportFile EXCEPT ![tok[w]] = Report(meta[w])]
    /\ End(w, Response("accept_post", tok[w], 196, 302, "none"))
    /\ UNCHANGED <<dir, metaFile, invFile, varsFile, transferLog, cleanupLog, hist>>

\* ------------------------------------------------------------------- crash
\* the server process dies: every handler in progress is gone, the files stay
Crash ==
    /\ \E w \in Threads : pc[w] # "idle"
    /\ pc' = [w \in Threads |-> "idle"]
    /\ tok' = [w \in Threads |-> "none"]
    /\ meta' = [w \in Threads |-> NoMeta]
    /\ out' = [w \in Threads |-> 0]
    /\ ended' = NoEnd
    /\ UNCHANGED <<disk, hist>>

Step(w) ==
    \/ CreateBegin(w)
    \/ CreateRefused(w)
    \/ CreateOpenMeta(w)
    \/ CreateWriteMeta(w)
    \/ CreateKeygen(w)
    \/ CreateSaveKey(w)
    \/ Share(w)
    \/ Status(w)
    \/ AcceptGet(w)
    \/ AcceptBegin(w)
    \/ AcceptRefused(w)
    \/ AcceptOpenMeta(w)
    \/ AcceptWriteMeta(w)
    \/ AcceptDescriptors(w)
    \/ AcceptSaveStart(w)
    \/ TransferLaunch(w)
    \/ TransferOutput(w)
    \/ TransferExit(w)
    \/ AcceptSaveTransfer(w)
    \/ CleanupLaunch(w)
    \/ CleanupOutput(w)
    \/ CleanupExit(w)
    \/ AcceptSaveCleanup(w)
    \/ ReportOpen(w)
    \/ ReportWrite(w)

Next == (\E w \in Threads : Step(w)) \/ Crash

Spec == Init /\ [][Next]_vars

\* ================================================================== claims
Terminal == {"transfer_success", "transfer_failed"}
StatusIn(f) == IF IsRecord(f) THEN f["status"] ELSE "unreadable"

\* the order of the state machine of accept: one step along
\* none -> waiting_for_client -> starting_transfer -> {success | failed}
Forward(a, b) ==
    \/ a = b
    \/ a = "none" /\ b = "waiting_for_client"
    \/ a = "waiting_for_client" /\ b = "starting_transfer"
    \/ a = "starting_transfer" /\ b \in Terminal

\* C1: the status written to meta.json only moves forward along
\* waiting_for_client -> starting_transfer -> {transfer_success |
\* transfer_failed}, never back and never past a predecessor.
C1_StatusForward ==
    [][\A t \in Tokens : Forward(lastStatus[t], lastStatus'[t])]_vars

\* C2: per session ssh-keygen runs exactly once and the transfer and cleanup
\* playbooks at most once each, whatever requests arrive on the token.
C2_RunOnce ==
    /\ \A t \in Tokens :
        keygenRuns[t] <= 1 /\ transferRuns[t] <= 1 /\ cleanupRuns[t] <= 1
    /\ (ended.kind = "create" /\ ended.code = 302) => keygenRuns[ended.token] = 1

\* C3: when an accept orchestration returns, the status in meta.json is
\* transfer_success or transfer_failed, and transfer_success exactly when the
\* recorded transfer_rc is 0.
C3_TerminalAtCompletion ==
    (ended.kind = "accept_post" /\ ended.code = 302) =>
        LET m == metaFile[ended.token]
        IN  /\ IsRecord(m)
            /\ m["status"] \in Terminal
            /\ "transfer_rc" \in DOMAIN m
            /\ (m["status"] = "transfer_success" <=> m["transfer_rc"] = 0)

C5_OutcomeBeforeCleanup ==
    \A w \in Threads :
        pc[w] \in {"cleanup_launch", "cleanup_run"} =>
            LET m == metaFile[tok[w]]
            IN  /\ IsRecord(m)
                /\ m["status"] \in Terminal
                /\ "cleanup_rc" \notin DOMAIN m

\* what the submitted client_host and client_user are: "missing" when a field
\* is not in the form, "empty" when one is blank, "given" otherwise
ClientFields(form) ==
    IF ~({"client_host", "client_user"} \subseteq DOMAIN form) THEN "missing"
    ELSE IF Strip(form["client_host"]) = <<>> \/ Strip(form["client_user"]) = <<>>
    THEN "empty"
    ELSE "given"

\* C6: on a session that can be loaded, an accept submission whose
\* client_host or client_user is blank or missing is answered with the
\* validation error (400) and goes no further.
C6_BlankClientRejected ==
    \A t \in Tokens, form \in AcceptForms :
        (dir[t] /\ LoadMeta(t) = "ok" /\ ClientFields(form) # "given")
            => AcceptPostOutcome(t, form).code = 400

\* C7: a create goes ahead only with a token no session in the store has, a
\* create that draws the token of an existing session fails, and a create
\* that returns leaves a record with status waiting_for_client and a
\* non-empty public_key.
C7_CreateUnique ==
    [][/\ (ended'.kind = "create" /\ ended'.at = 99)
            => dir[ended'.token] /\ disk' = disk
       /\ \A w \in Threads :
            /\ (pc[w] = "idle" /\ pc'[w] = "create_open_meta")
                   => /\ ~dir[tok'[w]]
                      /\ \A s \in Tokens : dir[s] =>
                            /\ s # tok'[w]
                            /\ metaFile'[s] = metaFile[s]
                            /\ reportFile'[s] = reportFile[s]
            /\ (pc[w] = "create_save_key" /\ pc'[w] = "idle" /\ ended'.kind = "create")
                   => LET m == metaFile'[tok[w]]
                      IN  /\ ended'.code = 302
                          /\ IsRecord(m)
                          /\ m["token"] = tok[w]
                          /\ m["status"] = "waiting_for_client"
                          /\ "public_key" \in DOMAIN m
                          /\ m["public_key"] # <<>>
      ]_vars

\* a create has just returned while another session is in the store
C7_Witness ==
    /\ ended.kind = "create" /\ ended.code = 302
    /\ \E s \in Tokens :
        s # ended.token /\ IsRecord(metaFile[s]) /\ "public_key" \in DOMAIN metaFile[s]

\* C8: after create_session died in key generation, no request is served on
\* the token: share, status and the accept page do not answer 200 and no
\* accept submission goes ahead.
C8_NoSessionAfterKeygenFailure ==
    \A t \in Tokens :
        keygenFailed[t] =>
            /\ ShareOutcome(t).code # 200
            /\ StatusOutcome(t).code # 200
            /\ AcceptGetOutcome(t).code # 200
            /\ \A form \in AcceptForms : ~Proceeds(AcceptPostOutcome(t, form))

\* C9: when an accept orchestration dies of an exception, meta.json is not
\* left at starting_transfer.
C9_FailureRecorded ==
    (ended.kind = "accept_post" /\ ended.code = 500) =>
        StatusIn(metaFile[ended.token]) # "starting_transfer"

\* C10: while the transfer playbook runs, vars.yml holds a non-empty
\* src_paths list and a non-empty dest_path.
C10_NonEmptyAtTransfer ==
    \A w \in Threads :
        pc[w] = "transfer_run" =>
            /\ varsFile[tok[w]]["src_paths"] # <<>>
            /\ varsFile[tok[w]]["dest_path"] # <<>>

\* C11: the status an orchestration saves once cleanup has exited (line 178)
\* is the status it saved once the transfer had exited (line 170), whatever
\* the two exit codes, and the record saved then holds the cleanup's exit
\* code under cleanup_rc.
C11_CleanupKeepsStatus ==
    [][\A w \in Threads :
        /\ (pc[w] = "accept_save_transfer" /\ pc'[w] = "cleanup_launch")
               => /\ metaFile'[tok[w]]["status"] = meta[w]["status"]
                  /\ meta'[w]["status"] = StatusOf(meta[w]["transfer_rc"])
        /\ (pc[w] \in {"cleanup_launch", "cleanup_run"}
                /\ pc'[w] \in {"cleanup_run", "accept_save_cleanup"})
               => /\ meta'[w]["status"] = meta[w]["status"]
                  /\ meta'[w]["transfer_rc"] = meta[w]["transfer_rc"]
        /\ (pc[w] = "cleanup_run" /\ pc'[w] = "accept_save_cleanup")
               => /\ "cleanup_rc" \in DOMAIN meta'[w]
                  /\ meta'[w]["cleanup_rc"] \in ExitCodes
        /\ (pc[w] = "accept_save_cleanup" /\ pc'[w] = "report_open")
               => /\ metaFile'[tok[w]]["status"] = meta[w]["status"]
                  /\ metaFile'[tok[w]]["cleanup_rc"] = meta[w]["cleanup_rc"]
      ]_vars

\* a cleanup that failed after a transfer that succeeded, both on disk
C11_Witness ==
    \E t \in Tokens :
        /\ IsRecord(metaFile[t])
        /\ metaFile[t]["status"] = "transfer_success"
        /\ "cleanup_rc" \in DOMAIN metaFile[t]
        /\ metaFile[t]["transfer_rc"] = 0
        /\ metaFile[t]["cleanup_rc"] = 2

\* an accept submission is being handled on token t, or one has saved a record
Accepting(t) ==
    \/ \E w \in Threads : tok[w] = t /\ pc[w] \notin CreatePcs
    \/ lastStatus[t] \in {"starting_transfer"} \cup Terminal

\* C12: while an accept writes the record of a session, and after a crash in
\* the middle of such a write, a read of the record returns a complete
\* record: share, status and the accept page answer 200.
C12_ReadsSeeWholeRecord ==
    \A t \in Tokens :
        (dir[t] /\ Accepting(t)) =>
            /\ ShareOutcome(t).code = 200
            /\ StatusOutcome(t).code = 200
            /\ AcceptGetOutcome(t).code = 200

\* C13: report.json, once written, keeps its contents, and it comes into
\* being only when meta.json holds cleanup_rc.
C13_ReportWrittenOnce ==
    [][\A t \in Tokens :
        /\ IsRecord(reportFile[t]) => reportFile'[t] = reportFile[t]
        /\ (reportFile[t] = NoFile /\ reportFile'[t] # NoFile)
               => /\ IsRecord(metaFile[t])
                  /\ "cleanup_rc" \in DOMAIN metaFile[t]
      ]_vars

\* two records of one session: same token, same source list
SameSession(a, b) == a["token"] = b["token"] /\ a["src_paths"] = b["src_paths"]

\* C14: the token and src_paths of a session record stay what create stored:
\* no step changes them in a record that stays readable, no handler changes
\* them in the copy it loaded and will save, and whenever the record is
\* readable it agrees on them with every handler's copy.
C14_TokenAndSourcesKept ==
    [][\A t \in Tokens :
        /\ (IsRecord(metaFile[t]) /\ IsRecord(metaFile'[t]))
               => SameSession(metaFile[t], metaFile'[t])
        /\ \A w \in Threads :
            /\ (tok[w] = t /\ tok'[w] = t) => SameSession(meta[w], meta'[w])
            /\ (tok'[w] = t /\ IsRecord(metaFile'[t]))
                   => /\ SameSession(meta'[w], metaFile'[t])
                      /\ metaFile'[t]["token"] = t
      ]_vars

\* a session accepted twice, its source list still the one typed at create
C14_Witness ==
    \E t \in Tokens :
        /\ transferRuns[t] = 2
        /\ IsRecord(metaFile[t])
        /\ "cleanup_rc" \in DOMAIN metaFile[t]
        /\ metaFile[t]["src_paths"] = << <<"a">> >>

\* C15: when an accept whose two playbook runs have exited returns, the
\* record is terminal, holds cleanup_rc, and the report exists.
C15_TerminalAtReturn ==
    (ended.kind = "accept_post" /\ ended.at = 196) =>
        LET m == metaFile[ended.token]
        IN  /\ IsRecord(m)
            /\ m["status"] \in Terminal
            /\ "cleanup_rc" \in DOMAIN m
            /\ IsRecord(reportFile[ended.token])

\* the threads that are handling an accept submission on token t
Orchestrating(t) == {w \in Threads : tok[w] = t /\ pc[w] \notin CreatePcs}

\* C16: at most one accept orchestration is in progress on a token.
C16_OneOrchestration ==
    \A t \in Tokens : Cardinality(Orchestrating(t)) <= 1

\* the fields a session record gathers from create to the end of cleanup
RecordFields ==
    {"public_key", "client_host", "client_user", "expected_size_bytes",
     "started_at", "transfer_rc", "finished_at", "cleanup_rc"}

\* C17: no field is lost by a later save.  The report is written after the
\* save that completes the record (line 178), so once the report is there
\* every record on disk holds every field.
C17_NoFieldLost ==
    \A t \in Tokens :
        (IsRecord(reportFile[t]) /\ IsRecord(metaFile[t]))
            => RecordFields \subseteq DOMAIN metaFile[t]

\* the fields the report shares with the record
ReportedFields ==
    {"status", "transfer_rc", "cleanup_rc", "dest_path", "client_host",
     "client_user"}

\* C18: at the step that writes the report, each of its status, transfer_rc,
\* cleanup_rc, dest_path, client_host and client_user is the value meta.json
\* holds.
C18_ReportEqualsRecord ==
    [][\A w \in Threads :
        (pc[w] = "report_write" /\ pc'[w] = "idle" /\ ended'.kind = "accept_post")
            => LET m == metaFile'[tok[w]]
                   r == reportFile'[tok[w]]
               IN  /\ IsRecord(m)
                   /\ \A k \in ReportedFields : k \in DOMAIN m /\ m[k] = r[k]
      ]_vars

FinalLog == [i \in 1 .. MaxLogLines |-> Line(i)]
IsPrefix(p, s) == Len(p) <= Len(s) /\ \A i \in 1 .. Len(p) : p[i] = s[i]

\* C20: while a transfer runs on a token, the transfer log its status page
\* shows is a non-empty prefix of what the run will have logged at its end.
C20_LogIsPrefix ==
    \A w \in Threads :
        pc[w] = "transfer_run" =>
            /\ StatusTransferLog(tok[w]) # <<>>
            /\ IsPrefix(StatusTransferLog(tok[w]), FinalLog)
====
